---- MODULE Spec2Model ----
(***************************************************************************)
(* Model of UniqueVehicleTracker (src/unique_vehicle_tracker.py): the      *)
(* registry of unique vehicles keyed by plate text, the similarity based   *)
(* identity matching, the admission of speed samples and the per-vehicle   *)
(* speed status; and of AdvancedSpeedCalculator (src/advanced_speed.py):   *)
(* the per-vehicle buffers of positions, timestamps and speeds, the cached *)
(* previous frame, the two speed methods and the hybrid choice.            *)
(*                                                                         *)
(* Conventions.  Speeds rounded to one decimal (the speeds of the tracker,  *)
(* the speeds the calculator returns) are integers in tenths of km/h       *)
(* (50 = 5.0 km/h, 1500 = 150.0 km/h), so that round(x, 1) is a rounding   *)
(* to an integer.  A plate is a sequence of one-character strings.  A      *)
(* similarity is the fraction num/den the code computes, kept as a record; *)
(* den = 0 is the division by zero of calculate_similarity on two empty    *)
(* plates.  Python's None is NoSpeed for speeds and NoPlate for plates.    *)
(* The dict detected_plates is the sequence of its values in insertion     *)
(* order (a dict iterates in insertion order, and assigning to an existing *)
(* key keeps that key's position).                                         *)
(***************************************************************************)
EXTENDS Integers, Sequences, FiniteSets, TLC

\* ---------------------------------------------------------------- bounds
\* number of detect_vehicle / finalize_all_speeds / get_summary calls explored
MaxCalls == 4
\* number of estimate_speed_hybrid calls explored, of calls for a further
\* detection in the same frame, and of calls in which the two readings of the
\* clock are equal
MaxEstimates == 6
MaxSameFrameCalls == 1
MaxClockTies == 1
\* number of detections process_frame_optimized is followed through
MaxDetections == 3
\* number of estimate_speed_hybrid calls for one moving vehicle
MaxMovingEstimates == 3
\* number of direct calculate_centroid_speed / calibrate_with_reference calls
MaxDirectCalls == 3
\* longest plate calculate_similarity is applied to on its own
MaxPlateLen == 3

\* ------------------------------------------------------ program constants
\* similarity_threshold=0.8 (default, and the value main.py configures), in tenths
DefaultSimilarityThreshold == 8
\* min_speed_samples=3 (default, and the value main.py configures)
DefaultMinSpeedSamples == 3
\* valid speed range 5 <= speed <= 150, in tenths of km/h
MinValidSpeed == 50
MaxValidSpeed == 1500

NoSpeed == -1
NoPlate == <<"None">>

\* ----------------------------------------------------------------- inputs
DL01AB1234 == <<"D", "L", "0", "1", "A", "B", "1", "2", "3", "4">>
\* 7 of 10 characters equal to DL01AB1234
DL01AB1999 == <<"D", "L", "0", "1", "A", "B", "1", "9", "9", "9">>
\* 9 of 10 equal to DL01AB1234 and 8 of 10 equal to DL01AB1999
DL01AB1294 == <<"D", "L", "0", "1", "A", "B", "1", "2", "9", "4">>
\* one character shorter than the others
DL01AB123 == <<"D", "L", "0", "1", "A", "B", "1", "2", "3">>

\* the plates main.py passes on: recognized and validated, so never empty
Plates == {DL01AB1234, DL01AB1999, DL01AB1294, DL01AB123}

\* absent, just below the range, both ends of the range, just above the range
Speeds == {NoSpeed, MinValidSpeed - 1, MinValidSpeed, MaxValidSpeed, MaxValidSpeed + 1}

\* similarity thresholds (tenths) and minimum sample counts a tracker is built with
SimilarityThresholds == {DefaultSimilarityThreshold}
MinSpeedSampleValues == {1, DefaultMinSpeedSamples}

\* the plates a direct call of calculate_similarity is tried on: every
\* non-empty plate over PlateAlphabet of at most MaxPlateLen characters
PlateAlphabet == {"A", "B"}
ProbePlates == UNION {[1..n -> PlateAlphabet] : n \in 1..MaxPlateLen}

VARIABLES detected_plates, vehicle_counter, speed_data,
          similarity_threshold, min_speed_samples, calls, last, probe

\* AdvancedSpeedCalculator: its fields, the frames and the clock it reads,
\* and the last call made to it
VARIABLES prev_gray, vehicle_tracks, reference_distance_meters, reference_pixels,
          meters_per_pixel, frame_count, clock, estimates, estimate

tracker_vars == <<detected_plates, vehicle_counter, speed_data,
                  similarity_threshold, min_speed_samples, calls, last, probe>>

estimator_vars == <<prev_gray, vehicle_tracks, reference_distance_meters, reference_pixels,
                    meters_per_pixel, frame_count, clock, estimates, estimate>>

vars == <<tracker_vars, estimator_vars>>

\* ------------------------------------------------------------ speed status
NotCalculated == [kind |-> "Not calculated yet", n |-> 0, min |-> 0]
Calculating(n, min) == [kind |-> "Calculating...", n |-> n, min |-> min]
Finalized == [kind |-> "Finalized", n |-> 0, min |-> 0]
EstimatedFrom(n) == [kind |-> "Estimated from", n |-> n, min |-> 0]
NoData == [kind |-> "No speed data available", n |-> 0, min |-> 0]

\* --------------------------------------------------------- identity matching
\* sum(1 for a, b in zip(plate1, plate2) if a == b); zip stops at the shorter plate
CountMatches(plate1, plate2) ==
    Cardinality({i \in 1..Len(plate1) : i <= Len(plate2) /\ plate1[i] = plate2[i]})

\* calculate_similarity without its length test: zip pairs the common prefix
calculate_similarity_no_length_test(plate1, plate2) ==
    [num |-> CountMatches(plate1, plate2), den |-> Len(plate1)]

\* matches / len(plate1), or 0.0 for plates of different lengths
calculate_similarity(plate1, plate2) ==
    IF Len(plate1) # Len(plate2) THEN [num |-> 0, den |-> 1]
    ELSE [num |-> CountMatches(plate1, plate2), den |-> Len(plate1)]

\* the division by zero of matches / len(plate1)
ZeroDivision(similarity) == similarity.den = 0

\* the comparison with > written for >=
AtLeast_strict(similarity, threshold) == similarity.num * 10 > threshold * similarity.den

\* similarity >= threshold, the threshold in tenths
AtLeast(similarity, threshold) == similarity.num * 10 >= threshold * similarity.den

RECURSIVE is_similar_from(_, _, _, _)
is_similar_from(new_plate, existing_plates, threshold, i) ==
    IF i > Len(existing_plates) THEN [raised |-> FALSE, plate |-> NoPlate]
    ELSE LET similarity == calculate_similarity(new_plate, existing_plates[i])
         IN  IF ZeroDivision(similarity) THEN [raised |-> TRUE, plate |-> NoPlate]
             ELSE IF AtLeast(similarity, threshold)
                  THEN [raised |-> FALSE, plate |-> existing_plates[i]]
                  ELSE is_similar_from(new_plate, existing_plates, threshold, i + 1)

\* the loop of is_similar_plate run over the plates latest first
is_similar_plate_latest_first(new_plate, existing_plates, threshold) ==
    is_similar_from(new_plate,
                    [i \in 1..Len(existing_plates) |->
                        existing_plates[Len(existing_plates) + 1 - i]],
                    threshold, 1)

is_similar_plate(new_plate, existing_plates, threshold) ==
    is_similar_from(new_plate, existing_plates, threshold, 1)

\* the keys without the plate registered last
Keys_but_last(plates) == [i \in 1..(Len(plates) - 1) |-> plates[i].plate_number]

\* detected_plates.keys(), in insertion order
Keys(plates) == [i \in 1..Len(plates) |-> plates[i].plate_number]

\* position of a key in the dict (0 when absent)
IndexOf(plates, plate_number) ==
    IF \E i \in 1..Len(plates) : plates[i].plate_number = plate_number
    THEN CHOOSE i \in 1..Len(plates) : plates[i].plate_number = plate_number
    ELSE 0

\* Python truthiness of the value is_similar_plate returned
Truthy(plate) == plate # NoPlate /\ plate # <<>>

\* ------------------------------------------------------------ speed samples
\* add_speed_sample without the upper end of the valid range
add_speed_sample_no_upper_end(data, plate_number, speed) ==
    IF speed # NoSpeed /\ MinValidSpeed <= speed
    THEN [data EXCEPT ![plate_number] = Append(@, speed)]
    ELSE data

\* add_speed_sample appending to the list of every plate
add_speed_sample_to_every_list(data, plate_number, speed) ==
    IF speed # NoSpeed /\ MinValidSpeed <= speed /\ speed <= MaxValidSpeed
    THEN [p \in DOMAIN data |-> Append(data[p], speed)]
    ELSE data

add_speed_sample(data, plate_number, speed) ==
    IF speed # NoSpeed /\ MinValidSpeed <= speed /\ speed <= MaxValidSpeed
    THEN [data EXCEPT ![plate_number] = Append(@, speed)]
    ELSE data

RECURSIVE SumSeq(_)
SumSeq(s) == IF s = <<>> THEN 0 ELSE Head(s) + SumSeq(Tail(s))

RECURSIVE Insert(_, _)
Insert(x, sorted) ==
    IF sorted = <<>> THEN <<x>>
    ELSE IF x <= Head(sorted) THEN <<x>> \o sorted
    ELSE <<Head(sorted)>> \o Insert(x, Tail(sorted))

RECURSIVE Sorted(_)
Sorted(s) == IF s = <<>> THEN <<>> ELSE Insert(Head(s), Sorted(Tail(s)))

\* 4 * np.percentile(speeds, q) for q = 25 * quarter, linear interpolation:
\* the virtual index is (n-1)*q/100, interpolated between its two neighbours
Percentile4(speeds, quarter) ==
    LET sorted == Sorted(speeds)
        pos4 == (Len(speeds) - 1) * quarter
        lo == (pos4 \div 4) + 1
        frac4 == pos4 % 4
    IN  IF frac4 = 0 THEN 4 * sorted[lo]
        ELSE 4 * sorted[lo] + frac4 * (sorted[lo + 1] - sorted[lo])

\* round(total / count, 0) on the tenths scale, ties to the even neighbour
RoundDiv(total, count) ==
    LET q == total \div count
        r == total % count
    IN  IF 2 * r < count THEN q
        ELSE IF 2 * r > count THEN q + 1
        ELSE IF q % 2 = 0 THEN q ELSE q + 1

\* round(np.mean(speeds), 1)
RoundedMean(speeds) == RoundDiv(SumSeq(speeds), Len(speeds))

\* the samples strictly between q25 and q75, bounds scaled by 4
FilteredSpeeds_between_quartiles(speeds) ==
    SelectSeq(speeds, LAMBDA s : 4 * s > Percentile4(speeds, 1) /\ 4 * s < Percentile4(speeds, 3))

\* the samples within [q25 - 1.5*iqr, q75 + 1.5*iqr], bounds scaled by 8
FilteredSpeeds(speeds) ==
    LET q75 == Percentile4(speeds, 3)
        q25 == Percentile4(speeds, 1)
        iqr == q75 - q25
        lower_bound == 2 * q25 - 3 * iqr
        upper_bound == 2 * q75 + 3 * iqr
    IN  SelectSeq(speeds, LAMBDA s : 8 * s >= lower_bound /\ 8 * s <= upper_bound)

get_final_speed(data, plate_number, min_samples) ==
    LET speeds == data[plate_number]
    IN  IF Len(speeds) >= min_samples
        THEN LET filtered_speeds == FilteredSpeeds(speeds)
             IN  IF Len(filtered_speeds) > 0 THEN RoundedMean(filtered_speeds)
                 ELSE NoSpeed
        ELSE NoSpeed

\* ------------------------------------------------------------------- state
NoCall == [op |-> "none", outcome |-> "none", plate_number |-> NoPlate,
           bbox |-> <<"bbox", 0>>, frame_number |-> 0, speed |-> NoSpeed,
           similar_plate |-> NoPlate, is_new |-> FALSE, vehicle_id |-> 0]

NoProbe == [op |-> "none", plate1 |-> NoPlate, plate2 |-> NoPlate,
            similarity |-> [num |-> 0, den |-> 1]]

\* ------------------------------------------------- AdvancedSpeedCalculator
\* A frame is the index of the frame in the stream; prev_gray holds the index
\* of the frame it is a copy of, NoFrame for None.
NoFrame == 0

\* the calibration main.py constructs the calculator with
fps == 30
MainReferenceDistanceMeters == 30
MainReferencePixels == 200
DefaultReferencePixels == 300

PositionsMaxLen == 10
TimestampsMaxLen == 10
SpeedsMaxLen == 5

\* the detections estimate_speed_hybrid is called for: main.py derives the
\* key "vehicle_x_y" and the box (x - 80, y - 120, 250, 150) from the
\* coordinates (x, y) of the plate
Detections == {[vehicle_id |-> "vehicle_180_320", vehicle_bbox |-> <<100, 200, 250, 150>>],
               [vehicle_id |-> "vehicle_420_320", vehicle_bbox |-> <<340, 200, 250, 150>>]}
VehicleIds == {detection.vehicle_id : detection \in Detections}

\* what vehicle_tracks[vehicle_id] is when the key is first used
EmptyTrack == [positions |-> <<>>, timestamps |-> <<>>, speeds |-> <<>>]

NoEstimate == [op |-> "none", outcome |-> "none",
               vehicle_id |-> "none", vehicle_bbox |-> <<0, 0, 0, 0>>,
               frame |-> NoFrame, compared_with |-> NoFrame,
               raw_flow_speed |-> NoSpeed, optical_flow_speed |-> NoSpeed,
               raw_centroid_speed |-> NoSpeed, centroid_speed |-> NoSpeed,
               result |-> NoSpeed]

\* AdvancedSpeedCalculator(fps, reference_distance_meters, reference_pixels)
AdvancedSpeedCalculatorInit(distance_meters, pixels) ==
    /\ reference_distance_meters = distance_meters
    /\ reference_pixels = IF pixels = 0 THEN DefaultReferencePixels ELSE pixels
    /\ meters_per_pixel = [num |-> reference_distance_meters, den |-> reference_pixels]
    /\ vehicle_tracks = [vehicle_id \in VehicleIds |-> EmptyTrack]
    /\ prev_gray = NoFrame
    /\ frame_count = 0
    /\ clock = 0
    /\ estimates = 0
    /\ estimate = NoEstimate

\* UniqueVehicleTracker(similarity_threshold, min_speed_samples)
Init ==
    /\ AdvancedSpeedCalculatorInit(MainReferenceDistanceMeters, MainReferencePixels)
    /\ detected_plates = <<>>
    /\ vehicle_counter = 0
    /\ speed_data = [p \in Plates |-> <<>>]
    /\ similarity_threshold \in SimilarityThresholds
    /\ min_speed_samples \in MinSpeedSampleValues
    /\ calls = 0
    /\ last = NoCall
    /\ probe = NoProbe

\* detected_plates[plate_number] = vehicle_info
SetItem(plates, plate_number, vehicle_info) ==
    IF IndexOf(plates, plate_number) = 0 THEN Append(plates, vehicle_info)
    ELSE [plates EXCEPT ![IndexOf(plates, plate_number)] = vehicle_info]

\* the matched branch reporting a list that is still empty as having no data
UpdateExisting_no_data(vehicle_info, data, similar_plate, speed, min_samples) ==
    IF speed # NoSpeed
    THEN LET final_speed == get_final_speed(data, similar_plate, min_samples)
         IN  IF final_speed # NoSpeed
             THEN [vehicle_info EXCEPT !.final_speed = final_speed,
                                       !.speed_status = Finalized]
             ELSE IF Len(data[similar_plate]) = 0
             THEN [vehicle_info EXCEPT !.speed_status = NoData]
             ELSE [vehicle_info EXCEPT
                      !.speed_status = Calculating(Len(data[similar_plate]), min_samples)]
    ELSE vehicle_info

\* the matched branch reporting the count whenever a speed is passed
UpdateExisting_recounting(vehicle_info, data, similar_plate, speed, min_samples) ==
    IF speed # NoSpeed
    THEN [vehicle_info EXCEPT
             !.speed_status = Calculating(Len(data[similar_plate]), min_samples)]
    ELSE vehicle_info

\* the branch of detect_vehicle taken when is_similar_plate found a plate
UpdateExisting(vehicle_info, data, similar_plate, speed, min_samples) ==
    IF speed # NoSpeed
    THEN LET final_speed == get_final_speed(data, similar_plate, min_samples)
         IN  IF final_speed # NoSpeed
             THEN [vehicle_info EXCEPT !.final_speed = final_speed,
                                       !.speed_status = Finalized]
             ELSE [vehicle_info EXCEPT
                      !.speed_status = Calculating(Len(data[similar_plate]), min_samples)]
    ELSE vehicle_info

\* the new branch with the id read before the counter is incremented
NewVehicle_stale_id(counter, data, plate_number, bbox, frame_number, now, speed, min_samples) ==
    [vehicle_id |-> counter - 1,
     plate_number |-> plate_number,
     first_detected_frame |-> frame_number,
     detection_time |-> now,
     bbox |-> bbox,
     final_speed |-> NoSpeed,
     speed_status |-> IF speed # NoSpeed
                      THEN Calculating(Len(data[plate_number]), min_samples)
                      ELSE NotCalculated,
     total_speed_samples |-> 0]

\* the new branch leaving the region of the record unset
NewVehicle_no_bbox(counter, data, plate_number, bbox, frame_number, now, speed, min_samples) ==
    [vehicle_id |-> counter,
     plate_number |-> plate_number,
     first_detected_frame |-> frame_number,
     detection_time |-> now,
     bbox |-> <<"bbox", 0>>,
     final_speed |-> NoSpeed,
     speed_status |-> IF speed # NoSpeed
                      THEN Calculating(Len(data[plate_number]), min_samples)
                      ELSE NotCalculated,
     total_speed_samples |-> 0]

\* the branch of detect_vehicle taken when no registered plate is similar
NewVehicle(counter, data, plate_number, bbox, frame_number, now, speed, min_samples) ==
    [vehicle_id |-> counter,
     plate_number |-> plate_number,
     first_detected_frame |-> frame_number,
     detection_time |-> now,
     bbox |-> bbox,
     final_speed |-> NoSpeed,
     speed_status |-> IF speed # NoSpeed
                      THEN Calculating(Len(data[plate_number]), min_samples)
                      ELSE NotCalculated,
     total_speed_samples |-> 0]

detect_vehicle(plate_number, bbox, frame_number, speed) ==
    LET found == is_similar_plate(plate_number, Keys(detected_plates), similarity_threshold)
        call == [op |-> "detect_vehicle", outcome |-> "returned",
                 plate_number |-> plate_number, bbox |-> bbox,
                 frame_number |-> frame_number, speed |-> speed,
                 similar_plate |-> found.plate, is_new |-> FALSE, vehicle_id |-> 0]
    IN  IF found.raised
        THEN \* ZeroDivisionError leaves calculate_similarity before any assignment
             /\ last' = [call EXCEPT !.outcome = "raised"]
             /\ UNCHANGED <<detected_plates, vehicle_counter, speed_data>>
        ELSE IF Truthy(found.plate)
        THEN LET i == IndexOf(detected_plates, found.plate)
                 data == IF speed # NoSpeed
                         THEN add_speed_sample(speed_data, found.plate, speed)
                         ELSE speed_data
             IN  /\ speed_data' = data
                 /\ detected_plates' =
                       [detected_plates EXCEPT
                           ![i] = UpdateExisting(@, data, found.plate, speed, min_speed_samples)]
                 /\ UNCHANGED vehicle_counter
                 /\ last' = [call EXCEPT !.vehicle_id = detected_plates[i].vehicle_id]
        ELSE LET data == IF speed # NoSpeed
                         THEN add_speed_sample(speed_data, plate_number, speed)
                         ELSE speed_data
                 vehicle_info == NewVehicle(vehicle_counter + 1, data, plate_number, bbox,
                                            frame_number, calls + 1, speed, min_speed_samples)
             IN  /\ vehicle_counter' = vehicle_counter + 1
                 /\ speed_data' = data
                 /\ detected_plates' = SetItem(detected_plates, plate_number, vehicle_info)
                 /\ last' = [call EXCEPT !.is_new = TRUE, !.vehicle_id = vehicle_counter + 1]

\* the bounding region of the detection the n-th call is made for
BBoxOf(n) == <<"bbox", n>>

\* one call of detect_vehicle; the frame number is the number of the call
DetectVehicle ==
    /\ calls < MaxCalls
    /\ calls' = calls + 1
    /\ \E plate_number \in Plates, speed \in Speeds :
          detect_vehicle(plate_number, BBoxOf(calls + 1), calls + 1, speed)
    /\ UNCHANGED <<similarity_threshold, min_speed_samples, probe>>
    /\ UNCHANGED estimator_vars

\* the loop body with the fallback branch reporting 'Finalized'
FinalizeOne_fallback_finalized(vehicle_info, data, min_samples) ==
    LET plate_number == vehicle_info.plate_number
        speed_samples == Len(data[plate_number])
        final_speed == get_final_speed(data, plate_number, min_samples)
        finalized ==
            IF vehicle_info.final_speed = NoSpeed
            THEN IF final_speed # NoSpeed
                 THEN [vehicle_info EXCEPT !.final_speed = final_speed,
                                           !.speed_status = Finalized]
                 ELSE IF speed_samples > 0
                 THEN [vehicle_info EXCEPT !.final_speed = RoundedMean(data[plate_number]),
                                           !.speed_status = Finalized]
                 ELSE [vehicle_info EXCEPT !.speed_status = NoData]
            ELSE vehicle_info
    IN  [finalized EXCEPT !.total_speed_samples = speed_samples]

\* the loop body with the fallback taken for an empty list too (>= 0 for > 0)
FinalizeOne_fallback_on_empty(vehicle_info, data, min_samples) ==
    LET plate_number == vehicle_info.plate_number
        speed_samples == Len(data[plate_number])
        final_speed == get_final_speed(data, plate_number, min_samples)
        finalized ==
            IF vehicle_info.final_speed = NoSpeed
            THEN IF final_speed # NoSpeed
                 THEN [vehicle_info EXCEPT !.final_speed = final_speed,
                                           !.speed_status = Finalized]
                 ELSE [vehicle_info EXCEPT
                          !.final_speed = IF speed_samples > 0
                                          THEN RoundedMean(data[plate_number]) ELSE 0,
                          !.speed_status = EstimatedFrom(speed_samples)]
            ELSE vehicle_info
    IN  [finalized EXCEPT !.total_speed_samples = speed_samples]

\* the loop body adding to total_speed_samples instead of setting it
FinalizeOne_accumulating(vehicle_info, data, min_samples) ==
    LET plate_number == vehicle_info.plate_number
        speed_samples == Len(data[plate_number])
        final_speed == get_final_speed(data, plate_number, min_samples)
        finalized ==
            IF vehicle_info.final_speed = NoSpeed
            THEN IF final_speed # NoSpeed
                 THEN [vehicle_info EXCEPT !.final_speed = final_speed,
                                           !.speed_status = Finalized]
                 ELSE IF speed_samples > 0
                 THEN [vehicle_info EXCEPT !.final_speed = RoundedMean(data[plate_number]),
                                           !.speed_status = EstimatedFrom(speed_samples)]
                 ELSE [vehicle_info EXCEPT !.speed_status = NoData]
            ELSE vehicle_info
    IN  [finalized EXCEPT !.total_speed_samples = @ + speed_samples]

\* the body of the loop of finalize_all_speeds, for one vehicle
FinalizeOne(vehicle_info, data, min_samples) ==
    LET plate_number == vehicle_info.plate_number
        speed_samples == Len(data[plate_number])
        final_speed == get_final_speed(data, plate_number, min_samples)
        finalized ==
            IF vehicle_info.final_speed = NoSpeed
            THEN IF final_speed # NoSpeed
                 THEN [vehicle_info EXCEPT !.final_speed = final_speed,
                                           !.speed_status = Finalized]
                 ELSE IF speed_samples > 0
                 THEN [vehicle_info EXCEPT !.final_speed = RoundedMean(data[plate_number]),
                                           !.speed_status = EstimatedFrom(speed_samples)]
                 ELSE [vehicle_info EXCEPT !.speed_status = NoData]
            ELSE vehicle_info
    IN  [finalized EXCEPT !.total_speed_samples = speed_samples]

\* finalize_all_speeds dropping the vehicles it has no sample for
finalize_all_speeds_drop_empty(plates, data, min_samples) ==
    SelectSeq([i \in 1..Len(plates) |-> FinalizeOne(plates[i], data, min_samples)],
              LAMBDA v : Len(data[v.plate_number]) > 0)

finalize_all_speeds(plates, data, min_samples) ==
    [i \in 1..Len(plates) |-> FinalizeOne(plates[i], data, min_samples)]

FinalizeAllSpeeds ==
    /\ calls < MaxCalls
    /\ calls' = calls + 1
    /\ detected_plates' = finalize_all_speeds(detected_plates, speed_data, min_speed_samples)
    /\ last' = [NoCall EXCEPT !.op = "finalize_all_speeds", !.outcome = "returned"]
    /\ UNCHANGED <<vehicle_counter, speed_data, similarity_threshold, min_speed_samples, probe>>
    /\ UNCHANGED estimator_vars

\* the summary counting every vehicle as one with a speed
Summary_counts_all(plates, counter) ==
    [total_unique_vehicles |-> counter,
     vehicles_with_speed |-> Len(plates),
     vehicles |-> [i \in 1..Len(plates) |->
                     LET vehicle == CHOOSE v \in {plates[j] : j \in 1..Len(plates)} :
                                       Cardinality({j \in 1..Len(plates) :
                                                      plates[j].vehicle_id < v.vehicle_id}) = i - 1
                     IN  [id |-> vehicle.vehicle_id,
                          plate |-> vehicle.plate_number,
                          speed |-> vehicle.final_speed,
                          speed_status |-> vehicle.speed_status,
                          detection_time |-> vehicle.detection_time,
                          frame |-> vehicle.first_detected_frame,
                          speed_samples |-> vehicle.total_speed_samples]]]

\* the dict get_summary returns, built from the state finalize_all_speeds left
Summary(plates, counter) ==
    [total_unique_vehicles |-> counter,
     vehicles_with_speed |-> Cardinality({i \in 1..Len(plates) : plates[i].final_speed # NoSpeed}),
     vehicles |-> [i \in 1..Len(plates) |->
                     LET vehicle == CHOOSE v \in {plates[j] : j \in 1..Len(plates)} :
                                       Cardinality({j \in 1..Len(plates) :
                                                      plates[j].vehicle_id < v.vehicle_id}) = i - 1
                     IN  [id |-> vehicle.vehicle_id,
                          plate |-> vehicle.plate_number,
                          speed |-> vehicle.final_speed,
                          speed_status |-> vehicle.speed_status,
                          detection_time |-> vehicle.detection_time,
                          frame |-> vehicle.first_detected_frame,
                          speed_samples |-> vehicle.total_speed_samples]]]

GetSummary ==
    /\ calls < MaxCalls
    /\ calls' = calls + 1
    /\ detected_plates' = finalize_all_speeds(detected_plates, speed_data, min_speed_samples)
    /\ last' = [NoCall EXCEPT !.op = "get_summary", !.outcome = "returned"]
    /\ UNCHANGED <<vehicle_counter, speed_data, similarity_threshold, min_speed_samples, probe>>
    /\ UNCHANGED estimator_vars

Next == DetectVehicle \/ FinalizeAllSpeeds \/ GetSummary

Spec == Init /\ [][Next]_vars

\* a session in which the caller only feeds detections
NextObserveOnly == DetectVehicle

SpecObserveOnly == Init /\ [][NextObserveOnly]_vars

\* calculate_similarity called on its own, on a fresh tracker
InitSimilarity ==
    /\ AdvancedSpeedCalculatorInit(MainReferenceDistanceMeters, MainReferencePixels)
    /\ detected_plates = <<>>
    /\ vehicle_counter = 0
    /\ speed_data = [p \in Plates |-> <<>>]
    /\ similarity_threshold = DefaultSimilarityThreshold
    /\ min_speed_samples = DefaultMinSpeedSamples
    /\ calls = 0
    /\ last = NoCall
    /\ \E plate1 \in ProbePlates, plate2 \in ProbePlates :
          probe = [NoProbe EXCEPT !.op = "arguments", !.plate1 = plate1, !.plate2 = plate2]

CalculateSimilarity ==
    /\ probe.op = "arguments"
    /\ probe' = [probe EXCEPT !.op = "calculate_similarity",
                              !.similarity = calculate_similarity(probe.plate1, probe.plate2)]
    /\ UNCHANGED <<detected_plates, vehicle_counter, speed_data,
                   similarity_threshold, min_speed_samples, calls, last>>
    /\ UNCHANGED estimator_vars

NextSimilarity == CalculateSimilarity

SpecSimilarity == InitSimilarity /\ [][NextSimilarity]_vars

\* detect_vehicle called directly, with plates nothing has validated: the
\* empty string among them
EmptyPlate == <<>>
UnvalidatedPlates == {DL01AB1234, EmptyPlate}

InitUnvalidated ==
    /\ AdvancedSpeedCalculatorInit(MainReferenceDistanceMeters, MainReferencePixels)
    /\ detected_plates = <<>>
    /\ vehicle_counter = 0
    /\ speed_data = [p \in UnvalidatedPlates |-> <<>>]
    /\ similarity_threshold \in SimilarityThresholds
    /\ min_speed_samples \in MinSpeedSampleValues
    /\ calls = 0
    /\ last = NoCall
    /\ probe = NoProbe

DetectUnvalidated ==
    /\ calls < MaxCalls
    /\ calls' = calls + 1
    /\ \E plate_number \in UnvalidatedPlates, speed \in Speeds :
          detect_vehicle(plate_number, BBoxOf(calls + 1), calls + 1, speed)
    /\ UNCHANGED <<similarity_threshold, min_speed_samples, probe>>
    /\ UNCHANGED estimator_vars

NextUnvalidated == DetectUnvalidated

SpecUnvalidated == InitUnvalidated /\ [][NextUnvalidated]_vars

\* ------------------------------------------ AdvancedSpeedCalculator: methods
\* Timestamps are readings of time.time() in ticks of one frame interval
\* (1/fps s).  What cv2 finds in the two images is an input: NoFlow when no
\* feature is found or at most 5 points are tracked, otherwise the mean
\* displacement of the tracked points in tenths of a pixel.
\* The raw speeds the methods compute and store are not rounded: they are
\* integers in hundredths of km/h, RawPerTenth to a tenth; get_smoothed_speed
\* rounds to tenths.
NoFlow == -1
Displacements == {0, 51, 130}
RawPerTenth == 10
FlowOutcomes == {NoFlow} \cup Displacements
Elapsed == {0, 1}

MinSmoothedSpeed == 0
MaxSmoothedSpeed == 2000
MinHybridSpeed == 50
MaxHybridSpeed == 1500

\* deque(maxlen).append dropping the newest item when full
deque_append_keep_oldest(d, x, maxlen) ==
    IF Len(d) < maxlen THEN Append(d, x) ELSE d

\* deque(maxlen).append
deque_append(d, x, maxlen) ==
    IF Len(d) < maxlen THEN Append(d, x) ELSE Append(Tail(d), x)

\* (x + w//2, y + h//2)
Center(vehicle_bbox) ==
    <<vehicle_bbox[1] + vehicle_bbox[3] \div 2, vehicle_bbox[2] + vehicle_bbox[4] \div 2>>

\* floor of the square root
Sqrt(n) == CHOOSE r \in 0..n : r * r <= n /\ n < (r + 1) * (r + 1)

\* np.sqrt((pos2[0] - pos1[0])**2 + (pos2[1] - pos1[1])**2), in whole pixels
PixelDistance(pos1, pos2) ==
    Sqrt((pos2[1] - pos1[1]) * (pos2[1] - pos1[1]) + (pos2[2] - pos1[2]) * (pos2[2] - pos1[2]))

\* displacement * meters_per_pixel / (1.0 / fps) * 3.6 in hundredths of km/h,
\* displacement in tenths of a pixel
FlowSpeed(displacement, mpp) ==
    (displacement * mpp.num * fps * 36) \div mpp.den

\* pixel_distance * meters_per_pixel / time_diff * 3.6 in hundredths of km/h,
\* pixel_distance in pixels, time_diff in ticks of 1/fps s
CentroidSpeed(pixel_distance, time_diff, mpp) ==
    (pixel_distance * mpp.num * fps * 360) \div (mpp.den * time_diff)

\* the weights with the most recent speed weighing least
Weight_oldest_heaviest(i, n) == IF n = 1 THEN 1 ELSE (n - 1) + (n - i)

\* np.linspace(0.5, 1.0, n)[i - 1], scaled by 2 * (n - 1) (by 2 for n = 1)
Weight(i, n) == IF n = 1 THEN 1 ELSE (n - 1) + (i - 1)

\* [s for s in speeds if 0 <= s <= 200]
ValidSpeeds(speeds) ==
    SelectSeq(speeds, LAMBDA s : RawPerTenth * MinSmoothedSpeed <= s
                                 /\ s <= RawPerTenth * MaxSmoothedSpeed)

\* get_smoothed_speed averaging the whole window
get_smoothed_speed_unfiltered(speeds) ==
    IF Len(speeds) = 0 THEN NoSpeed
    ELSE RoundDiv(SumSeq([i \in 1..Len(speeds) |-> Weight(i, Len(speeds)) * speeds[i]]),
                  RawPerTenth * SumSeq([i \in 1..Len(speeds) |-> Weight(i, Len(speeds))]))

\* get_smoothed_speed, for the speed window of one track
get_smoothed_speed(speeds) ==
    LET valid_speeds == ValidSpeeds(speeds)
        n == Len(valid_speeds)
    IN  IF Len(speeds) = 0 THEN NoSpeed
        ELSE IF n = 0 THEN NoSpeed
        ELSE RoundDiv(SumSeq([i \in 1..n |-> Weight(i, n) * valid_speeds[i]]),
                      RawPerTenth * SumSeq([i \in 1..n |-> Weight(i, n)]))

\* calculate_optical_flow_speed: the tracks and prev_gray it leaves, the raw
\* speed it measured and the speed it returns
calculate_optical_flow_speed(tracks, prev, frame, vehicle_bbox, vehicle_id, current_time, flow, mpp) ==
    LET track_data == tracks[vehicle_id]
    IN  IF prev # NoFrame /\ flow # NoFlow
        THEN LET speed_kmph == FlowSpeed(flow, mpp)
                 tracked == [positions |-> deque_append(track_data.positions,
                                                        Center(vehicle_bbox), PositionsMaxLen),
                             timestamps |-> deque_append(track_data.timestamps,
                                                         current_time, TimestampsMaxLen),
                             speeds |-> deque_append(track_data.speeds, speed_kmph, SpeedsMaxLen)]
             IN  [tracks |-> [tracks EXCEPT ![vehicle_id] = tracked],
                  prev_gray |-> prev,
                  raw |-> speed_kmph,
                  speed |-> get_smoothed_speed(tracked.speeds)]
        ELSE LET tracked == [track_data EXCEPT
                                !.positions = deque_append(track_data.positions,
                                                           Center(vehicle_bbox), PositionsMaxLen),
                                !.timestamps = deque_append(track_data.timestamps,
                                                            current_time, TimestampsMaxLen)]
             IN  [tracks |-> [tracks EXCEPT ![vehicle_id] = tracked],
                  prev_gray |-> frame,
                  raw |-> NoSpeed,
                  speed |-> NoSpeed]

\* calculate_centroid_speed storing 0.0 when no time has passed
calculate_centroid_speed_zero_on_tie(tracks, vehicle_bbox, vehicle_id, current_time, mpp) ==
    LET track_data == tracks[vehicle_id]
        positions == deque_append(track_data.positions, Center(vehicle_bbox), PositionsMaxLen)
        timestamps == deque_append(track_data.timestamps, current_time, TimestampsMaxLen)
        n == Len(positions)
        time_diff == timestamps[n] - timestamps[n - 1]
    IN  IF n >= 2
        THEN LET speed_kmph == IF time_diff > 0
                               THEN CentroidSpeed(PixelDistance(positions[n - 1], positions[n]),
                                                  time_diff, mpp)
                               ELSE 0
                 speeds == deque_append(track_data.speeds, speed_kmph, SpeedsMaxLen)
             IN  [tracks |-> [tracks EXCEPT ![vehicle_id] =
                                 [positions |-> positions, timestamps |-> timestamps,
                                  speeds |-> speeds]],
                  raw |-> speed_kmph,
                  speed |-> get_smoothed_speed(speeds)]
        ELSE [tracks |-> [tracks EXCEPT ![vehicle_id] =
                             [track_data EXCEPT !.positions = positions,
                                                !.timestamps = timestamps]],
              raw |-> NoSpeed,
              speed |-> NoSpeed]

\* calculate_centroid_speed
calculate_centroid_speed(tracks, vehicle_bbox, vehicle_id, current_time, mpp) ==
    LET track_data == tracks[vehicle_id]
        positions == deque_append(track_data.positions, Center(vehicle_bbox), PositionsMaxLen)
        timestamps == deque_append(track_data.timestamps, current_time, TimestampsMaxLen)
        n == Len(positions)
        time_diff == timestamps[n] - timestamps[n - 1]
    IN  IF n >= 2 /\ time_diff > 0
        THEN LET speed_kmph == CentroidSpeed(PixelDistance(positions[n - 1], positions[n]),
                                             time_diff, mpp)
                 speeds == deque_append(track_data.speeds, speed_kmph, SpeedsMaxLen)
             IN  [tracks |-> [tracks EXCEPT ![vehicle_id] =
                                 [positions |-> positions, timestamps |-> timestamps,
                                  speeds |-> speeds]],
                  raw |-> speed_kmph,
                  speed |-> get_smoothed_speed(speeds)]
        ELSE [tracks |-> [tracks EXCEPT ![vehicle_id] =
                             [track_data EXCEPT !.positions = positions,
                                                !.timestamps = timestamps]],
              raw |-> NoSpeed,
              speed |-> NoSpeed]

InHybridRange(speed) == speed # NoSpeed /\ MinHybridSpeed <= speed /\ speed <= MaxHybridSpeed

\* the selection with the centroid speed returned unchecked
hybrid_choice_centroid_unchecked(optical_flow_speed, centroid_speed) ==
    IF InHybridRange(optical_flow_speed) THEN optical_flow_speed ELSE centroid_speed

\* the if / elif / else of estimate_speed_hybrid
hybrid_choice(optical_flow_speed, centroid_speed) ==
    IF InHybridRange(optical_flow_speed) THEN optical_flow_speed
    ELSE IF InHybridRange(centroid_speed) THEN centroid_speed
    ELSE NoSpeed

\* estimate_speed_hybrid(current_frame, vehicle_bbox, vehicle_id); new_frame
\* says whether current_frame is the next frame of the stream or the frame of
\* the call before (another detection in the same frame)
estimate_speed_hybrid(new_frame, vehicle_bbox, vehicle_id, flow, elapsed) ==
    LET frame == IF new_frame THEN frame_count + 1 ELSE frame_count
        flow_time == clock + 1
        centroid_time == flow_time + elapsed
    IN  \E optical_flow \in {calculate_optical_flow_speed(vehicle_tracks, prev_gray, frame,
                            vehicle_bbox, vehicle_id, flow_time, flow, meters_per_pixel)} :
        \E centroid \in {calculate_centroid_speed(optical_flow.tracks, vehicle_bbox, vehicle_id,
                                             centroid_time, meters_per_pixel)} :
        /\ frame_count' = frame
        /\ clock' = centroid_time
        /\ prev_gray' = optical_flow.prev_gray
        /\ vehicle_tracks' = centroid.tracks
        /\ estimate' = [op |-> "estimate_speed_hybrid",
                        outcome |-> "returned",
                        vehicle_id |-> vehicle_id,
                        vehicle_bbox |-> vehicle_bbox,
                        frame |-> frame,
                        compared_with |-> prev_gray,
                        raw_flow_speed |-> optical_flow.raw,
                        optical_flow_speed |-> optical_flow.speed,
                        raw_centroid_speed |-> centroid.raw,
                        centroid_speed |-> centroid.speed,
                        result |-> hybrid_choice(optical_flow.speed, centroid.speed)]

\* what the images allow cv2 to find: nothing to track without a previous
\* frame, no displacement between a frame and itself, and some displacement
\* between two frames (the vehicles observed move)
PossibleFlow(frame, flow) ==
    /\ prev_gray = NoFrame => flow = NoFlow
    /\ prev_gray = frame => flow \in {NoFlow, 0}
    /\ flow = 0 => prev_gray = frame

EstimateSpeedHybrid(new_frame) ==
    /\ estimates < MaxEstimates
    /\ estimates' = estimates + 1
    /\ \E detection \in Detections, flow \in FlowOutcomes, elapsed \in Elapsed :
          /\ PossibleFlow(IF new_frame THEN frame_count + 1 ELSE frame_count, flow)
          /\ elapsed = 0 => 2 * estimates - clock < MaxClockTies
          /\ estimate_speed_hybrid(new_frame, detection.vehicle_bbox, detection.vehicle_id,
                                   flow, elapsed)
    /\ UNCHANGED <<reference_distance_meters, reference_pixels, meters_per_pixel>>
    /\ UNCHANGED tracker_vars

\* the first detection of the next frame
EstimateNextFrame == EstimateSpeedHybrid(TRUE)

\* a further detection in the frame of the call before
EstimateSameFrame ==
    /\ frame_count > 0
    /\ estimates - frame_count < MaxSameFrameCalls
    /\ EstimateSpeedHybrid(FALSE)

InitEstimator ==
    /\ AdvancedSpeedCalculatorInit(MainReferenceDistanceMeters, MainReferencePixels)
    /\ detected_plates = <<>>
    /\ vehicle_counter = 0
    /\ speed_data = [p \in Plates |-> <<>>]
    /\ similarity_threshold = DefaultSimilarityThreshold
    /\ min_speed_samples = DefaultMinSpeedSamples
    /\ calls = 0
    /\ last = NoCall
    /\ probe = NoProbe

NextEstimator == EstimateNextFrame \/ EstimateSameFrame

SpecEstimator == InitEstimator /\ [][NextEstimator]_vars

\* one estimate_speed_hybrid call per frame
NextOneCallPerFrame == EstimateNextFrame

SpecOneCallPerFrame == InitEstimator /\ [][NextOneCallPerFrame]_vars

\* --------------------------------------------------------- one moving vehicle
\* estimate_speed_hybrid called once per frame for one vehicle whose box
\* moves: by 3 pixels across and 4 down, 5 pixels, between the two boxes
MovingVehicleId == "vehicle_180_320"
MovingBBoxes == {<<100, 200, 250, 150>>, <<103, 204, 250, 150>>}

EstimateMovingVehicle ==
    /\ estimates < MaxMovingEstimates
    /\ estimates' = estimates + 1
    /\ \E vehicle_bbox \in MovingBBoxes, flow \in FlowOutcomes, elapsed \in Elapsed :
          /\ PossibleFlow(frame_count + 1, flow)
          /\ estimate_speed_hybrid(TRUE, vehicle_bbox, MovingVehicleId, flow, elapsed)
    /\ UNCHANGED <<reference_distance_meters, reference_pixels, meters_per_pixel>>
    /\ UNCHANGED tracker_vars

NextMovingVehicle == EstimateMovingVehicle

SpecMovingVehicle == InitEstimator /\ [][NextMovingVehicle]_vars

\* ------------------------------------------------------------- direct calls
\* calculate_centroid_speed and calibrate_with_reference called on their own.
\* Between two calls time.time() moves on, stands still or, when the system
\* clock is set back, goes back.
ClockSteps == {-1, 0, 1}
KnownDistances == {25, 30}
MeasuredPixels == {0, 150, 200}

CalculateCentroidSpeed ==
    /\ estimates < MaxDirectCalls
    /\ estimates' = estimates + 1
    /\ \E vehicle_bbox \in MovingBBoxes, step \in ClockSteps :
          \E centroid \in {calculate_centroid_speed(vehicle_tracks, vehicle_bbox, MovingVehicleId,
                                                    clock + step, meters_per_pixel)} :
              /\ clock' = clock + step
              /\ vehicle_tracks' = centroid.tracks
              /\ estimate' = [NoEstimate EXCEPT !.op = "calculate_centroid_speed",
                                                !.outcome = "returned",
                                                !.vehicle_id = MovingVehicleId,
                                                !.vehicle_bbox = vehicle_bbox,
                                                !.raw_centroid_speed = centroid.raw,
                                                !.centroid_speed = centroid.speed,
                                                !.result = centroid.speed]
    /\ UNCHANGED <<prev_gray, frame_count>>
    /\ UNCHANGED <<reference_distance_meters, reference_pixels, meters_per_pixel>>
    /\ UNCHANGED tracker_vars

\* calibrate_with_reference: the two references are assigned before the
\* division, which raises ZeroDivisionError for measured_pixels = 0
calibrate_with_reference(known_distance_meters, measured_pixels) ==
    /\ reference_distance_meters' = known_distance_meters
    /\ reference_pixels' = measured_pixels
    /\ IF measured_pixels = 0
       THEN /\ UNCHANGED meters_per_pixel
            /\ estimate' = [NoEstimate EXCEPT !.op = "calibrate_with_reference",
                                              !.outcome = "raised"]
       ELSE /\ meters_per_pixel' = [num |-> known_distance_meters, den |-> measured_pixels]
            /\ estimate' = [NoEstimate EXCEPT !.op = "calibrate_with_reference",
                                              !.outcome = "returned"]

CalibrateWithReference ==
    /\ estimates < MaxDirectCalls
    /\ estimates' = estimates + 1
    /\ \E known_distance_meters \in KnownDistances, measured_pixels \in MeasuredPixels :
          calibrate_with_reference(known_distance_meters, measured_pixels)
    /\ UNCHANGED <<prev_gray, vehicle_tracks, frame_count, clock>>
    /\ UNCHANGED tracker_vars

NextDirectCalls == CalculateCentroidSpeed \/ CalibrateWithReference

SpecDirectCalls == InitEstimator /\ [][NextDirectCalls]_vars

\* ------------------------------------------------------ process_frame_optimized
\* The body of the loop of process_frame_optimized (src/main.py): for one
\* detection with a valid plate, estimate_speed_hybrid and then detect_vehicle
\* with the speed it returned.
DetectedPlates == {DL01AB1234, DL01AB1999}

ProcessDetection(new_frame) ==
    /\ calls < MaxDetections
    /\ calls' = calls + 1
    /\ estimates' = estimates + 1
    /\ \E detection \in Detections, flow \in FlowOutcomes, elapsed \in Elapsed,
          recognized_plate \in DetectedPlates :
          /\ PossibleFlow(IF new_frame THEN frame_count + 1 ELSE frame_count, flow)
          /\ elapsed = 0 => 2 * estimates - clock < MaxClockTies
          /\ estimate_speed_hybrid(new_frame, detection.vehicle_bbox, detection.vehicle_id,
                                   flow, elapsed)
          /\ detect_vehicle(recognized_plate, detection.vehicle_bbox, frame_count',
                            estimate'.result)
    /\ UNCHANGED <<reference_distance_meters, reference_pixels, meters_per_pixel>>
    /\ UNCHANGED <<similarity_threshold, min_speed_samples, probe>>

\* the first detection of the next frame
ProcessNextFrame == ProcessDetection(TRUE)

\* a further detection of the frame being processed
ProcessSameFrame ==
    /\ frame_count > 0
    /\ estimates - frame_count < MaxSameFrameCalls
    /\ ProcessDetection(FALSE)

\* main.py: AdvancedSpeedCalculator(30, 30, 200), UniqueVehicleTracker(0.8, 3)
InitProcessFrame == InitEstimator

NextProcessFrame == ProcessNextFrame \/ ProcessSameFrame

SpecProcessFrame == InitProcessFrame /\ [][NextProcessFrame]_vars

\* ------------------------------------------------------------------ claims
\* the number of positions at which two plates of one length agree
SamePositions(a, b) == Cardinality({i \in 1..Len(a) : a[i] = b[i]})

\* the identity-matching rule: same length and matches / length >= threshold
Similar(a, b, threshold) ==
    Len(a) = Len(b) /\ 10 * SamePositions(a, b) >= threshold * Len(a)

\* a speed the aggregate list admits
ValidSample(speed) == speed # NoSpeed /\ MinValidSpeed <= speed /\ speed <= MaxValidSpeed

\* the plate of the record a returned detect_vehicle call created or updated
Target(call) == IF call.is_new THEN call.plate_number ELSE call.similar_plate

RecordOf(plates, plate_number) == plates[IndexOf(plates, plate_number)]

\* C1: the k-th record created has id k, so ids increase strictly in creation
\* order and no two records share one; the counter equals the number of records
\* in every state, so a call that matches an existing record allocates no id,
\* and a call that creates a record returns the id of that record.
C1_IdsInCreationOrder ==
    /\ vehicle_counter = Len(detected_plates)
    /\ \A i \in 1..Len(detected_plates) : detected_plates[i].vehicle_id = i
    /\ (last.op = "detect_vehicle" /\ last.is_new) => last.vehicle_id = Len(detected_plates)
    /\ (last.op = "detect_vehicle" /\ ~last.is_new) => last.vehicle_id <= vehicle_counter

C1_Witness ==
    /\ Len(detected_plates) >= 2
    /\ last.op = "detect_vehicle"
    /\ ~last.is_new
    /\ last.vehicle_id = 1

\* C2: no two records hold the same plate, and any two registered plates are
\* not similar: their similarity is strictly below similarity_threshold.
C2_PairwiseNonSimilar ==
    \A i, j \in 1..Len(detected_plates) :
        i # j =>
            /\ detected_plates[i].plate_number # detected_plates[j].plate_number
            /\ ~Similar(detected_plates[i].plate_number, detected_plates[j].plate_number,
                        similarity_threshold)

C2_Witness ==
    /\ Len(detected_plates) = 3
    /\ last.op = "detect_vehicle"
    /\ ~last.is_new
    /\ last.plate_number # last.similar_plate

\* C3: a detect_vehicle call returns is_new = FALSE with the id of an existing
\* record and leaves the number of records unchanged exactly when some registered
\* plate is similar to the observed one; otherwise it returns is_new = TRUE and
\* appends exactly one record, whose plate is the observed plate and whose id is
\* the previous number of records plus one.
C3_Step ==
    last'.op = "detect_vehicle" =>
        LET plate == last'.plate_number
            n == Len(detected_plates)
        IN  IF \E i \in 1..n : Similar(plate, detected_plates[i].plate_number,
                                       similarity_threshold)
            THEN /\ last'.outcome = "returned"
                 /\ ~last'.is_new
                 /\ Len(detected_plates') = n
                 /\ \E i \in 1..n : detected_plates[i].vehicle_id = last'.vehicle_id
            ELSE /\ last'.outcome = "returned"
                 /\ last'.is_new
                 /\ Len(detected_plates') = n + 1
                 /\ \A i \in 1..n : detected_plates'[i] = detected_plates[i]
                 /\ detected_plates'[n + 1].plate_number = plate
                 /\ detected_plates'[n + 1].vehicle_id = n + 1
                 /\ last'.vehicle_id = n + 1

C3_ResolveOrRegister == [][C3_Step]_vars

\* DL01AB1999 (similarity 0.7 to DL01AB1234) was registered as a second vehicle
\* and DL01AB1294 (similarity 0.9) resolved to the first
C3_Witness ==
    /\ Len(detected_plates) = 2
    /\ detected_plates[1].plate_number = DL01AB1234
    /\ detected_plates[2].plate_number = DL01AB1999
    /\ last.op = "detect_vehicle"
    /\ last.plate_number = DL01AB1294
    /\ ~last.is_new
    /\ last.vehicle_id = 1

\* C4: when the observed plate is similar to two or more registered plates, the
\* call resolves to the one registered earliest (the smallest id), and the speed
\* sample of the call is added to the list of that record only.
C4_Step ==
    LET plate == last'.plate_number
        similar == {i \in 1..Len(detected_plates) :
                       Similar(plate, detected_plates[i].plate_number, similarity_threshold)}
    IN  (last'.op = "detect_vehicle" /\ Cardinality(similar) >= 2) =>
            LET first == CHOOSE i \in similar : \A j \in similar : i <= j
                earliest == detected_plates[first]
            IN  /\ \A j \in similar : earliest.vehicle_id <= detected_plates[j].vehicle_id
                /\ ~last'.is_new
                /\ last'.similar_plate = earliest.plate_number
                /\ last'.vehicle_id = earliest.vehicle_id
                /\ speed_data'[earliest.plate_number] =
                       IF ValidSample(last'.speed)
                       THEN Append(speed_data[earliest.plate_number], last'.speed)
                       ELSE speed_data[earliest.plate_number]
                /\ \A p \in Plates \ {earliest.plate_number} : speed_data'[p] = speed_data[p]

C4_EarliestRegisteredWins == [][C4_Step]_vars

\* DL01AB1294 is similar to both registered plates; the earlier one got the sample
C4_Witness ==
    /\ Len(detected_plates) = 2
    /\ detected_plates[1].plate_number = DL01AB1999
    /\ detected_plates[2].plate_number = DL01AB1234
    /\ last.op = "detect_vehicle"
    /\ last.plate_number = DL01AB1294
    /\ last.similar_plate = DL01AB1999
    /\ last.speed = MinValidSpeed
    /\ speed_data[DL01AB1999] = <<MinValidSpeed>>
    /\ speed_data[DL01AB1234] = <<>>

\* C5: for plates of different lengths the similarity is 0; for plates of one
\* length it is the number of agreeing positions over the length, hence within
\* [0,1], 1 for a plate and itself, 0 for plates that differ everywhere, and the
\* same in both argument orders.
C5_Similarity ==
    probe.op = "calculate_similarity" =>
        LET a == probe.plate1
            b == probe.plate2
            sim == probe.similarity
            back == calculate_similarity(b, a)
        IN  /\ sim.den > 0
            /\ 0 <= sim.num /\ sim.num <= sim.den
            /\ Len(a) # Len(b) => sim.num = 0
            /\ Len(a) = Len(b) => sim.num * Len(a) = SamePositions(a, b) * sim.den
            /\ a = b => sim.num = sim.den
            /\ (Len(a) = Len(b) /\ \A i \in 1..Len(a) : a[i] # b[i]) => sim.num = 0
            /\ back.den > 0 /\ sim.num * back.den = back.num * sim.den

\* the similarity of two plates of one length that agree in some positions only
C5_Witness ==
    /\ probe.op = "calculate_similarity"
    /\ Len(probe.plate1) = Len(probe.plate2)
    /\ probe.similarity.num > 0
    /\ probe.similarity.num < probe.similarity.den

\* C6: every value in every aggregate sample list lies in [5,150]; a call with
\* an absent sample or one outside that range leaves every list unchanged, a
\* call with a sample inside it (the ends 5 and 150 included) appends it to the
\* list of the record it resolved to, and finalizing changes no list.
C6_Range ==
    \A p \in Plates : \A i \in 1..Len(speed_data[p]) :
        MinValidSpeed <= speed_data[p][i] /\ speed_data[p][i] <= MaxValidSpeed

C6_Step ==
    IF last'.op = "detect_vehicle"
    THEN /\ speed_data'[Target(last')] =
               IF ValidSample(last'.speed)
               THEN Append(speed_data[Target(last')], last'.speed)
               ELSE speed_data[Target(last')]
         /\ \A p \in Plates \ {Target(last')} : speed_data'[p] = speed_data[p]
    ELSE speed_data' = speed_data

C6_OnlyValidSamples == []C6_Range /\ [][C6_Step]_vars

\* a sample just above the range was offered to a record holding both ends
C6_Witness ==
    /\ last.op = "detect_vehicle"
    /\ last.speed = MaxValidSpeed + 1
    /\ speed_data[Target(last)] = <<MinValidSpeed, MaxValidSpeed>>

\* C7: whenever a detect_vehicle call returns and the record it resolved to holds
\* at least min_speed_samples admitted samples, the status of that record is
\* Finalized and its final speed is the mean, rounded to one decimal, of the
\* samples within [Q1 - 1.5 IQR, Q3 + 1.5 IQR].
C7_FinalizedAtMinSamples ==
    (last.op = "detect_vehicle" /\ last.outcome = "returned") =>
        LET samples == speed_data[Target(last)]
            record == RecordOf(detected_plates, Target(last))
        IN  Len(samples) >= min_speed_samples =>
                /\ record.speed_status = Finalized
                /\ record.final_speed = RoundedMean(FilteredSpeeds(samples))

\* C8: in a session of detect_vehicle calls only, the status of a record agrees
\* with the number n of its admitted samples: it is NotCalculated exactly when
\* n = 0, and Calculating(k/min) only with k = n and 0 < n < min_speed_samples.
C8_StatusAgreesWithCount ==
    \A i \in 1..Len(detected_plates) :
        LET record == detected_plates[i]
            n == Len(speed_data[record.plate_number])
        IN  /\ (record.speed_status = NotCalculated) <=> (n = 0)
            /\ record.speed_status.kind = "Calculating..." =>
                  /\ record.speed_status.n = n
                  /\ 0 < n
                  /\ n < min_speed_samples

\* C9: right after finalize_all_speeds or get_summary every record has an
\* end-of-session status: Finalized, Estimated from n samples or No speed data.
C9_EndStatusAfterFinalize ==
    last.op \in {"finalize_all_speeds", "get_summary"} =>
        \A i \in 1..Len(detected_plates) :
            detected_plates[i].speed_status.kind \in
                {"Finalized", "Estimated from", "No speed data available"}

\* C10: a detect_vehicle call never moves a record into Estimated from n samples
\* or No speed data: every record either keeps the status it had before the call
\* or has one of NotCalculated, Calculating, Finalized after it.
C10_Step ==
    last'.op = "detect_vehicle" =>
        \A i \in 1..Len(detected_plates') :
            \/ /\ i <= Len(detected_plates)
               /\ detected_plates'[i].speed_status = detected_plates[i].speed_status
            \/ detected_plates'[i].speed_status.kind \in
                   {"Not calculated yet", "Calculating...", "Finalized"}

C10_ObserveSetsNoEndStatus == [][C10_Step]_vars

\* a call offered a sample to a record that a finalize call had left without data
C10_Witness ==
    /\ last.op = "detect_vehicle"
    /\ ~last.is_new
    /\ last.speed # NoSpeed
    /\ \E i \in 1..Len(detected_plates) :
          /\ detected_plates[i].plate_number # last.similar_plate
          /\ detected_plates[i].speed_status = NoData

\* the nearest integer to total / count is rounded
IsRounded(rounded, total, count) ==
    2 * (rounded * count - total) <= count /\ 2 * (total - rounded * count) <= count

Finalizing(call) == call.op \in {"finalize_all_speeds", "get_summary"}

\* C11: finalize_all_speeds applied to a record without a final speed that has
\* n admitted samples, 0 < n < min_speed_samples, sets its status to Estimated
\* from n samples and its final speed to the mean of all n samples, rounded to
\* one decimal.
C11_Step ==
    Finalizing(last') =>
        \A i \in 1..Len(detected_plates) :
            LET samples == speed_data[detected_plates[i].plate_number]
                n == Len(samples)
            IN  (detected_plates[i].final_speed = NoSpeed /\ 0 < n /\ n < min_speed_samples) =>
                    /\ detected_plates'[i].speed_status = EstimatedFrom(n)
                    /\ detected_plates'[i].final_speed # NoSpeed
                    /\ IsRounded(detected_plates'[i].final_speed, SumSeq(samples), n)

C11_EstimatedFromMean == [][C11_Step]_vars

\* two samples, 5.0 and 150.0, with three required: estimated as 77.5
C11_Witness ==
    /\ Finalizing(last)
    /\ min_speed_samples = 3
    /\ \E i \in 1..Len(detected_plates) :
          /\ speed_data[detected_plates[i].plate_number] = <<MinValidSpeed, MaxValidSpeed>>
          /\ detected_plates[i].speed_status = EstimatedFrom(2)
          /\ detected_plates[i].final_speed = 775

\* C12: finalize_all_speeds applied to a record with no admitted sample sets its
\* status to No speed data and leaves its final speed absent.
C12_Step ==
    Finalizing(last') =>
        \A i \in 1..Len(detected_plates) :
            Len(speed_data[detected_plates[i].plate_number]) = 0 =>
                /\ detected_plates'[i].speed_status = NoData
                /\ detected_plates'[i].final_speed = NoSpeed

C12_NoDataWithoutSamples == [][C12_Step]_vars

\* two records finalized without an admitted sample
C12_Witness ==
    /\ Finalizing(last)
    /\ Len(detected_plates) = 2
    /\ \A i \in 1..2 :
          /\ detected_plates[i].speed_status = NoData
          /\ detected_plates[i].final_speed = NoSpeed
          /\ speed_data[detected_plates[i].plate_number] = <<>>

\* C13: in the summary get_summary returns, total_unique_vehicles is the number
\* of records and the length of the vehicles list, vehicles_with_speed is the
\* number of records with a final speed, the list is in strictly ascending id
\* order, and the speed_samples of each entry is the number of samples admitted
\* for its plate.
C13_Summary ==
    last.op = "get_summary" =>
        LET summary == Summary(detected_plates, vehicle_counter)
            n == Len(summary.vehicles)
        IN  /\ summary.total_unique_vehicles = Len(detected_plates)
            /\ summary.total_unique_vehicles = n
            /\ summary.vehicles_with_speed =
                   Cardinality({i \in 1..Len(detected_plates) :
                                   detected_plates[i].final_speed # NoSpeed})
            /\ \A i \in 1..n : \A j \in 1..n :
                   i < j => summary.vehicles[i].id < summary.vehicles[j].id
            /\ \A i \in 1..n :
                   summary.vehicles[i].speed_samples = Len(speed_data[summary.vehicles[i].plate])

\* a summary of three vehicles, one of them with a final speed, one entry
\* counting one sample
C13_Witness ==
    /\ last.op = "get_summary"
    /\ Len(detected_plates) = 3
    /\ Summary(detected_plates, vehicle_counter).vehicles_with_speed = 1
    /\ \E i \in 1..3 : Summary(detected_plates, vehicle_counter).vehicles[i].speed_samples = 1

\* C14: no call removes a record or changes the plate, the id, the first
\* detected frame or the detection time of one, and no sample list gets shorter.
C14_Step ==
    /\ Len(detected_plates') >= Len(detected_plates)
    /\ \A i \in 1..Len(detected_plates) :
          /\ detected_plates'[i].plate_number = detected_plates[i].plate_number
          /\ detected_plates'[i].vehicle_id = detected_plates[i].vehicle_id
          /\ detected_plates'[i].first_detected_frame = detected_plates[i].first_detected_frame
          /\ detected_plates'[i].detection_time = detected_plates[i].detection_time
          /\ Len(speed_data'[detected_plates[i].plate_number]) >=
                 Len(speed_data[detected_plates[i].plate_number])

C14_RecordsAreStable == [][C14_Step]_vars

\* a later call with a similar, different plate and a finalize call have both
\* left the plate, frame and time of the first observation in place
C14_Witness ==
    /\ Finalizing(last)
    /\ calls = 3
    /\ Len(detected_plates) = 1
    /\ detected_plates[1].plate_number = DL01AB1234
    /\ detected_plates[1].first_detected_frame = 1
    /\ detected_plates[1].detection_time = 1
    /\ speed_data[DL01AB1234] = <<MinValidSpeed, MaxValidSpeed>>

\* C15 as stated: after a detect_vehicle call that matches an existing record,
\* the region stored in that record is the region passed to the call.
C15_Step ==
    (last'.op = "detect_vehicle" /\ ~last'.is_new) =>
        RecordOf(detected_plates', last'.similar_plate).bbox = last'.bbox

C15_LastKnownRegion == [][C15_Step]_vars

\* C15 as amended: the region stored in a record is the one passed to the call
\* that created it; a call that matches an existing record leaves the region of
\* every record unchanged.
C15_AmendedStep ==
    last'.op = "detect_vehicle" =>
        /\ \A i \in 1..Len(detected_plates) :
              detected_plates'[i].bbox = detected_plates[i].bbox
        /\ last'.is_new => detected_plates'[Len(detected_plates')].bbox = last'.bbox

C15_FirstSeenRegion == [][C15_AmendedStep]_vars

\* the second call matched the record of the first and passed another region
C15_Witness ==
    /\ last.op = "detect_vehicle"
    /\ ~last.is_new
    /\ last.bbox = BBoxOf(2)
    /\ RecordOf(detected_plates, last.similar_plate).bbox = BBoxOf(1)

\* C16: every detect_vehicle call returns normally, whatever the plate, the
\* empty string included, and whatever was observed before.
C16_AlwaysReturns ==
    last.op = "detect_vehicle" => last.outcome = "returned"

\* ------------------------------------------- claims: AdvancedSpeedCalculator
Hybrid(call) == call.op = "estimate_speed_hybrid"

Reasonable(speed) == speed # NoSpeed /\ MinHybridSpeed <= speed /\ speed <= MaxHybridSpeed

Elements(d) == {d[i] : i \in 1..Len(d)}

\* C17: estimate_speed_hybrid returns the smoothed optical flow speed if it is
\* present and within [5, 150] km/h, otherwise the centroid speed if that is
\* present and within [5, 150], otherwise nothing; so whatever it returns is
\* absent or within [5, 150].
C17_HybridChoice ==
    Hybrid(estimate) =>
        /\ Reasonable(estimate.optical_flow_speed) =>
               estimate.result = estimate.optical_flow_speed
        /\ (~Reasonable(estimate.optical_flow_speed) /\ Reasonable(estimate.centroid_speed)) =>
               estimate.result = estimate.centroid_speed
        /\ (~Reasonable(estimate.optical_flow_speed) /\ ~Reasonable(estimate.centroid_speed)) =>
               estimate.result = NoSpeed
        /\ estimate.result = NoSpeed \/ Reasonable(estimate.result)

\* the optical flow gave nothing and the centroid speed, within the range, was
\* returned
C17_Witness ==
    /\ Hybrid(estimate)
    /\ estimate.optical_flow_speed = NoSpeed
    /\ estimate.centroid_speed # NoSpeed
    /\ estimate.result = estimate.centroid_speed

\* old followed by the items a step appended, with the oldest items dropped
\* down to maxlen, is new
FifoStep(old, new, added, maxlen) ==
    LET total == Len(old) + added
        dropped == IF total > maxlen THEN total - maxlen ELSE 0
    IN  /\ Len(new) = total - dropped
        /\ \A i \in 1..(Len(old) - dropped) : new[i] = old[dropped + i]

\* the number of items a call appended for its vehicle
Stored(speed) == IF speed # NoSpeed THEN 1 ELSE 0

C18_Bounded ==
    \A vehicle_id \in VehicleIds :
        /\ Len(vehicle_tracks[vehicle_id].positions) <= PositionsMaxLen
        /\ Len(vehicle_tracks[vehicle_id].timestamps) <= TimestampsMaxLen
        /\ Len(vehicle_tracks[vehicle_id].speeds) <= SpeedsMaxLen

C18_Step ==
    Hybrid(estimate') =>
        \A vehicle_id \in VehicleIds :
            LET called == IF vehicle_id = estimate'.vehicle_id THEN 1 ELSE 0
                speeds == Stored(estimate'.raw_flow_speed) + Stored(estimate'.raw_centroid_speed)
            IN  /\ FifoStep(vehicle_tracks[vehicle_id].positions,
                            vehicle_tracks'[vehicle_id].positions,
                            called * 2, PositionsMaxLen)
                /\ FifoStep(vehicle_tracks[vehicle_id].timestamps,
                            vehicle_tracks'[vehicle_id].timestamps,
                            called * 2, TimestampsMaxLen)
                /\ FifoStep(vehicle_tracks[vehicle_id].speeds,
                            vehicle_tracks'[vehicle_id].speeds,
                            called * speeds, SpeedsMaxLen)
                /\ called = 1 =>
                       /\ vehicle_tracks'[vehicle_id].positions[
                              Len(vehicle_tracks'[vehicle_id].positions)] =
                                  Center(estimate'.vehicle_bbox)
                       /\ vehicle_tracks'[vehicle_id].timestamps[
                              Len(vehicle_tracks'[vehicle_id].timestamps)] = clock'

\* C18: the positions and the timestamps of a track never hold more than 10
\* items and its speeds never more than 5; an append to a full buffer drops
\* the oldest item and keeps the others in order.
C18_BoundedFifo == []C18_Bounded /\ [][C18_Step]_vars

\* six calls for one vehicle: twelve positions and timestamps were appended,
\* the first two are gone; at least seven speeds were appended
C18_Witness ==
    /\ estimates = MaxEstimates
    /\ \E vehicle_id \in VehicleIds :
          /\ \A other \in VehicleIds \ {vehicle_id} : vehicle_tracks[other] = EmptyTrack
          /\ Len(vehicle_tracks[vehicle_id].positions) = PositionsMaxLen
          /\ Len(vehicle_tracks[vehicle_id].timestamps) = TimestampsMaxLen
          /\ vehicle_tracks[vehicle_id].timestamps[1] > 2
          /\ vehicle_tracks[vehicle_id].speeds = <<0, 8262, 0, 8262, 0>>

\* C19 as stated: no speed outside [0, 200] km/h is stored in the speeds of a
\* track.
C19_OnlyPlausibleStored ==
    \A vehicle_id \in VehicleIds :
        \A s \in Elements(vehicle_tracks[vehicle_id].speeds) :
            RawPerTenth * MinSmoothedSpeed <= s /\ s <= RawPerTenth * MaxSmoothedSpeed

Plausible(speeds) ==
    {s \in Elements(speeds) :
        RawPerTenth * MinSmoothedSpeed <= s /\ s <= RawPerTenth * MaxSmoothedSpeed}

\* smoothed is absent when no stored speed is plausible, and otherwise lies,
\* to the rounding, between the least and the greatest plausible stored speed
SmoothedFromPlausible(smoothed, speeds) ==
    IF Plausible(speeds) = {} THEN smoothed = NoSpeed
    ELSE /\ smoothed # NoSpeed
         /\ \E low \in Plausible(speeds) : 2 * low <= 2 * RawPerTenth * smoothed + RawPerTenth
         /\ \E high \in Plausible(speeds) : 2 * RawPerTenth * smoothed - RawPerTenth <= 2 * high

\* C19 as amended: a raw speed is stored in the speeds of its track whatever
\* its value; the range [0, 200] km/h is applied when the speeds are read: the
\* smoothed speed a method returns after storing a raw speed is computed from
\* the stored speeds within [0, 200] only, and is absent when there is none.
C19_FilteredOnRead ==
    Hybrid(estimate) =>
        LET speeds == vehicle_tracks[estimate.vehicle_id].speeds
        IN  /\ estimate.raw_flow_speed # NoSpeed =>
                   estimate.raw_flow_speed \in Elements(speeds)
            /\ estimate.raw_centroid_speed # NoSpeed =>
                   /\ speeds[Len(speeds)] = estimate.raw_centroid_speed
                   /\ SmoothedFromPlausible(estimate.centroid_speed, speeds)
            /\ (estimate.raw_flow_speed # NoSpeed /\ estimate.raw_centroid_speed = NoSpeed) =>
                   /\ speeds[Len(speeds)] = estimate.raw_flow_speed
                   /\ SmoothedFromPlausible(estimate.optical_flow_speed, speeds)

\* 210.6 km/h was measured and stored, next to a plausible 82.62, and the
\* centroid speed returned was smoothed
C19_Witness ==
    /\ Hybrid(estimate)
    /\ estimate.raw_flow_speed = 21060
    /\ 21060 \in Elements(vehicle_tracks[estimate.vehicle_id].speeds)
    /\ 8262 \in Elements(vehicle_tracks[estimate.vehicle_id].speeds)
    /\ estimate.centroid_speed # NoSpeed

\* C20: with one estimate_speed_hybrid call per frame, the frame the optical
\* flow of the k-th frame (k > 1) is computed against is the (k-1)-th frame.
C20_ComparesWithPreviousFrame ==
    (Hybrid(estimate) /\ estimate.frame > 1) =>
        estimate.compared_with = estimate.frame - 1

\* ----------------------------------------- claims: statuses and final speeds
\* C27: a record whose status is Finalized is Finalized, with a final speed,
\* after every later call: detect_vehicle with no speed, with a speed within
\* [5, 150] or with one outside, finalize_all_speeds and get_summary.
C27_Step ==
    \A i \in 1..Len(detected_plates) :
        detected_plates[i].speed_status = Finalized =>
            /\ detected_plates'[i].speed_status = Finalized
            /\ detected_plates'[i].final_speed # NoSpeed

C27_FinalizedIsAbsorbing == [][C27_Step]_vars

\* a record with one sample is Finalized after four calls: every call after
\* the one that finalized it passed no speed or a speed outside the range, or
\* was a finalize_all_speeds or get_summary call
C27_Witness ==
    /\ Finalizing(last)
    /\ calls = MaxCalls
    /\ min_speed_samples = 1
    /\ Len(detected_plates) = 1
    /\ detected_plates[1].speed_status = Finalized
    /\ speed_data[detected_plates[1].plate_number] = <<MaxValidSpeed>>

HasEndSpeedStatus(vehicle_info) ==
    \/ vehicle_info.speed_status = Finalized
    \/ vehicle_info.speed_status = EstimatedFrom(vehicle_info.speed_status.n)

\* C28: in every state of detect_vehicle and finalize_all_speeds calls in any
\* order, a record has a final speed if and only if its status is Finalized or
\* Estimated from n samples.
C28_FinalSpeedIffEndStatus ==
    \A i \in 1..Len(detected_plates) :
        detected_plates[i].final_speed # NoSpeed <=> HasEndSpeedStatus(detected_plates[i])

C30_Step ==
    (Finalizing(last) /\ Finalizing(last')) =>
        /\ Len(detected_plates') = Len(detected_plates)
        /\ \A i \in 1..Len(detected_plates) :
              /\ detected_plates'[i].speed_status = detected_plates[i].speed_status
              /\ detected_plates'[i].final_speed = detected_plates[i].final_speed
              /\ detected_plates'[i].total_speed_samples =
                     detected_plates[i].total_speed_samples
              /\ speed_data'[detected_plates[i].plate_number] =
                     speed_data[detected_plates[i].plate_number]
        /\ Summary(detected_plates', vehicle_counter') =
               Summary(detected_plates, vehicle_counter)

C30_FinalizeIsIdempotent == [][C30_Step]_vars

\* get_summary as the fourth call, over an estimated record and a record
\* without data
C30_Witness ==
    /\ last.op = "get_summary"
    /\ calls = MaxCalls
    /\ Len(detected_plates) = 2
    /\ \E i \in 1..Len(detected_plates) :
          /\ detected_plates[i].speed_status = EstimatedFrom(1)
          /\ detected_plates[i].total_speed_samples = 1
    /\ \E i \in 1..Len(detected_plates) : detected_plates[i].speed_status = NoData

\* ------------------------------------- claims: frames, smoothing, calibration
\* C21: when several detections of one frame are estimated in sequence, each
\* is compared against the same cached frame, and the cached frame a detection
\* is compared against is never the frame being processed.
C21_Step ==
    Hybrid(estimate') =>
        /\ estimate'.compared_with # NoFrame => estimate'.compared_with # estimate'.frame
        /\ (Hybrid(estimate) /\ estimate'.frame = estimate.frame) =>
               estimate'.compared_with = estimate.compared_with

C21_CacheOncePerFrame == [][C21_Step]_vars

\* the stored speeds within [0, 200] km/h, oldest first
PlausibleWindow(speeds) ==
    SelectSeq(speeds, LAMBDA s : RawPerTenth * MinSmoothedSpeed <= s
                                 /\ s <= RawPerTenth * MaxSmoothedSpeed)

\* 0.5 + 0.5 * (i - 1) / (n - 1), the i-th of n weights rising linearly from
\* 0.5 to 1.0, times 2 * (n - 1); a single weight is 0.5, times 2
LinearWeight(i, n) == IF n = 1 THEN 1 ELSE (n - 1) + (i - 1)

Distance(a, b) == IF a >= b THEN a - b ELSE b - a

\* smoothed, in tenths, is the weighted average of valid, in hundredths,
\* rounded to a tenth
IsWeightedAverage(smoothed, valid) ==
    LET n == Len(valid)
        total == SumSeq([i \in 1..n |-> LinearWeight(i, n) * valid[i]])
        weights == SumSeq([i \in 1..n |-> LinearWeight(i, n)])
    IN  2 * Distance(RawPerTenth * smoothed * weights, total) <= RawPerTenth * weights

\* the speed get_smoothed_speed returns for a window is the speed the last
\* call returned from the method that stored a speed last
ReturnedSmoothed(call, speeds) ==
    /\ call.raw_centroid_speed # NoSpeed =>
           call.centroid_speed = get_smoothed_speed(speeds)
    /\ (call.raw_flow_speed # NoSpeed /\ call.raw_centroid_speed = NoSpeed) =>
           call.optical_flow_speed = get_smoothed_speed(speeds)

\* C24 as stated: the smoothed speed of a window is the weighted average,
\* rounded to one decimal, of its values within [0, 200] in chronological
\* order, the weights rising linearly from 0.5 to 1.0; it lies between the
\* smallest and the largest of these values, equals the value when there is
\* one, and is absent when there is none.
C24_AverageWithinValues ==
    /\ \A vehicle_id \in VehicleIds :
          LET valid == PlausibleWindow(vehicle_tracks[vehicle_id].speeds)
              smoothed == get_smoothed_speed(vehicle_tracks[vehicle_id].speeds)
          IN  IF Len(valid) = 0 THEN smoothed = NoSpeed
              ELSE /\ smoothed # NoSpeed
                   /\ IsWeightedAverage(smoothed, valid)
                   /\ \E low \in Elements(valid) : low <= RawPerTenth * smoothed
                   /\ \E high \in Elements(valid) : RawPerTenth * smoothed <= high
                   /\ Len(valid) = 1 => RawPerTenth * smoothed = valid[1]
    /\ Hybrid(estimate) => ReturnedSmoothed(estimate, vehicle_tracks[estimate.vehicle_id].speeds)

\* C24 as amended: the smoothed speed of a window is the weighted average,
\* rounded to one decimal, of its values within [0, 200] in chronological
\* order, the weights rising linearly from 0.5 to 1.0; it lies within 0.05 of
\* the range from the smallest to the largest of these values, equals the
\* value rounded to one decimal when there is one, and is absent when there is
\* none.
C24_RoundedAverage ==
    /\ \A vehicle_id \in VehicleIds :
          LET valid == PlausibleWindow(vehicle_tracks[vehicle_id].speeds)
              smoothed == get_smoothed_speed(vehicle_tracks[vehicle_id].speeds)
          IN  IF Len(valid) = 0 THEN smoothed = NoSpeed
              ELSE /\ smoothed # NoSpeed
                   /\ IsWeightedAverage(smoothed, valid)
                   /\ \E low \in Elements(valid) :
                         2 * low <= 2 * RawPerTenth * smoothed + RawPerTenth
                   /\ \E high \in Elements(valid) :
                         2 * RawPerTenth * smoothed - RawPerTenth <= 2 * high
                   /\ Len(valid) = 1 =>
                         2 * Distance(RawPerTenth * smoothed, valid[1]) <= RawPerTenth
    /\ Hybrid(estimate) => ReturnedSmoothed(estimate, vehicle_tracks[estimate.vehicle_id].speeds)

\* the window holds 82.62 km/h alone and the optical flow method returned 82.6
C24_Witness ==
    /\ Hybrid(estimate)
    /\ vehicle_tracks[estimate.vehicle_id].speeds = <<8262>>
    /\ estimate.raw_flow_speed = 8262
    /\ estimate.optical_flow_speed = 826

\* C26: an estimate_speed_hybrid call for one vehicle_id leaves the positions,
\* timestamps and speeds of every other vehicle_id unchanged, and a
\* detect_vehicle call that resolves to one record leaves the sample list, the
\* status and the final speed of every other record unchanged.
C26_Step ==
    /\ Hybrid(estimate') =>
          \A vehicle_id \in VehicleIds \ {estimate'.vehicle_id} :
              vehicle_tracks'[vehicle_id] = vehicle_tracks[vehicle_id]
    /\ (last'.op = "detect_vehicle" /\ last'.outcome = "returned") =>
          \A i \in 1..Len(detected_plates) :
              detected_plates[i].plate_number # Target(last') =>
                  /\ speed_data'[detected_plates[i].plate_number] =
                         speed_data[detected_plates[i].plate_number]
                  /\ detected_plates'[i].speed_status = detected_plates[i].speed_status
                  /\ detected_plates'[i].final_speed = detected_plates[i].final_speed

C26_OwnedByOneVehicle == [][C26_Step]_vars

\* the third detection resolved to the second record, which holds a sample,
\* next to a first record without one; both tracks hold positions
C26_Witness ==
    /\ calls = 3
    /\ Len(detected_plates) = 2
    /\ last.op = "detect_vehicle"
    /\ last.similar_plate = detected_plates[2].plate_number
    /\ speed_data[detected_plates[2].plate_number] # <<>>
    /\ detected_plates[1].speed_status = NotCalculated
    /\ \A vehicle_id \in VehicleIds : vehicle_tracks[vehicle_id].positions # <<>>
    /\ vehicle_tracks[estimate.vehicle_id].speeds # <<>>

\* C25: in the second of two consecutive estimate_speed_hybrid calls for one
\* vehicle_id, the raw speed the centroid method stores is the distance between
\* the centers of the boxes of the two calls, times meters_per_pixel, divided
\* by the time between the two calls, times 3.6; each call adds one position
\* and one timestamp to the track.
C25_Step ==
    (Hybrid(estimate) /\ Hybrid(estimate') /\ estimate'.vehicle_id = estimate.vehicle_id) =>
        LET track == vehicle_tracks[estimate.vehicle_id]
            tracked == vehicle_tracks'[estimate.vehicle_id]
            pixels == PixelDistance(Center(estimate.vehicle_bbox), Center(estimate'.vehicle_bbox))
        IN  /\ Len(tracked.positions) =
                   IF Len(track.positions) < PositionsMaxLen
                   THEN Len(track.positions) + 1 ELSE PositionsMaxLen
            /\ Len(tracked.timestamps) = Len(tracked.positions)
            /\ estimate'.raw_centroid_speed # NoSpeed =>
                   estimate'.raw_centroid_speed * meters_per_pixel.den * (clock' - clock) =
                       pixels * meters_per_pixel.num * fps * 360

C25_SpeedBetweenCalls == [][C25_Step]_vars

Centroid(call) == call.op = "calculate_centroid_speed"

\* C22: calculate_centroid_speed returns nothing, raises nothing and stores no
\* speed when the time between the last two timestamps of the track is zero or
\* negative, and when the track holds fewer than two positions; otherwise it
\* stores one speed.
C22_Step ==
    Centroid(estimate') =>
        LET track == vehicle_tracks[estimate'.vehicle_id]
            tracked == vehicle_tracks'[estimate'.vehicle_id]
            n == Len(tracked.timestamps)
        IN  /\ estimate'.outcome = "returned"
            /\ IF n < 2 \/ tracked.timestamps[n] - tracked.timestamps[n - 1] <= 0
               THEN /\ estimate'.result = NoSpeed
                    /\ tracked.speeds = track.speeds
               ELSE /\ Len(tracked.speeds) = Len(track.speeds) + 1
                    /\ estimate'.result = get_smoothed_speed(tracked.speeds)

C22_NoEstimateWithoutElapsedTime == [][C22_Step]_vars

\* the third call read the clock as the second had: nothing was returned and
\* the speed of the second call is still the only one stored
C22_Witness ==
    /\ Centroid(estimate)
    /\ vehicle_tracks[MovingVehicleId].timestamps = <<1, 2, 2>>
    /\ Len(vehicle_tracks[MovingVehicleId].speeds) = 1
    /\ estimate.result = NoSpeed

\* C23: after construction and after every calibrate_with_reference call,
\* returned or failed, meters_per_pixel = reference_distance_meters /
\* reference_pixels with reference_pixels nonzero.
C23_CalibrationIsAtomic ==
    /\ reference_pixels # 0
    /\ meters_per_pixel.num * reference_pixels =
           meters_per_pixel.den * reference_distance_meters

====
